---- MODULE Spec2Model ----
(***************************************************************************)
(* ftee: a many-to-many text file splitter (src/ftee.go).                  *)
(*                                                                         *)
(* Text is modelled as sequences of one-character strings.  The line       *)
(* classifier extractFileNames is an operator over such sequences; the     *)
(* run (main, processInputFile, openOutputFiles, closeOutputFiles,         *)
(* removeOutputFiles) is a state machine over the destination map          *)
(* _gOutputs, the local target list and a small file system.               *)
(***************************************************************************)
EXTENDS Naturals, Sequences, FiniteSets

(***************************************************************************)
(* Bounds of the model.                                                    *)
(***************************************************************************)
\* longest line handed to extractFileNames in SpecClassify
MaxLineLen == 5
\* most input files on the command line
MaxFiles == 2
\* most calls of ReadString in one run
MaxReads == 3
\* most failing writes the file system produces in one run
MaxWriteFails == 1

(***************************************************************************)
(* Characters and strings.go helpers.                                      *)
(***************************************************************************)
\* the characters the lines of SpecClassify are made of
Char == {"D", "a", "b", " ", "\n"}

\* unicode.IsSpace restricted to Char, as used by strings.Fields
IsSpace(c) == c \in {" ", "\n"}

\* strings.Contains(line, sub)
Contains(line, sub) ==
    \E i \in 0..Len(line) :
        /\ i + Len(sub) <= Len(line)
        /\ SubSeq(line, i + 1, i + Len(sub)) = sub

\* strings.Fields(line): the maximal runs of non-space characters, in order
RECURSIVE FieldsFrom(_, _, _)
FieldsFrom(line, i, cur) ==
    IF i > Len(line)
    THEN IF cur = <<>> THEN <<>> ELSE <<cur>>
    ELSE IF IsSpace(line[i])
         THEN IF cur = <<>>
              THEN FieldsFrom(line, i + 1, <<>>)
              ELSE <<cur>> \o FieldsFrom(line, i + 1, <<>>)
         ELSE FieldsFrom(line, i + 1, Append(cur, line[i]))

Fields(line) == FieldsFrom(line, 1, <<>>)

(***************************************************************************)
(* extractFileNames (src/ftee.go:142-171).  The result is the pair         *)
(* (names, err); err is "nil" or the kind of the error message.            *)
(***************************************************************************)
ErrNil == "nil"
ErrMultiple == "Found more than one delimiter"
ErrUnbounded == "Delimiter must be surrounded by whitespace"
ErrMissing == "No file names found after delimiter"

\* ScanFields with the check for a second delimiter field (lines 156-159)
\* left out: the second delimiter is collected as a name
RECURSIVE ScanFieldsNoSecondCheck(_, _, _, _, _)
ScanFieldsNoSecondCheck(delimiter, fields, i, dfound, names) ==
    IF i > Len(fields)
    THEN [names |-> names, dfound |-> dfound, early |-> FALSE]
    ELSE IF ~dfound
         THEN ScanFieldsNoSecondCheck(delimiter, fields, i + 1,
                                      fields[i] = delimiter, names)
         ELSE ScanFieldsNoSecondCheck(delimiter, fields, i + 1, dfound,
                                      Append(names, fields[i]))

\* ScanFields with the `continue` of line 154 moved inside the inner if: a
\* field before the delimiter falls through and is collected as a name
RECURSIVE ScanFieldsMisplacedContinue(_, _, _, _, _)
ScanFieldsMisplacedContinue(delimiter, fields, i, dfound, names) ==
    IF i > Len(fields)
    THEN [names |-> names, dfound |-> dfound, early |-> FALSE]
    ELSE IF ~dfound /\ fields[i] = delimiter
         THEN ScanFieldsMisplacedContinue(delimiter, fields, i + 1, TRUE, names)
         ELSE IF fields[i] = delimiter
              THEN [names |-> names, dfound |-> dfound, early |-> TRUE]
              ELSE ScanFieldsMisplacedContinue(delimiter, fields, i + 1, dfound,
                                               Append(names, fields[i]))

\* the for loop over fields, lines 149-161: i is the next field, dfound and
\* names are the loop's locals; an early return carries early = TRUE
RECURSIVE ScanFields(_, _, _, _, _)
ScanFields(delimiter, fields, i, dfound, names) ==
    IF i > Len(fields)
    THEN [names |-> names, dfound |-> dfound, early |-> FALSE]
    ELSE IF ~dfound
         THEN ScanFields(delimiter, fields, i + 1, fields[i] = delimiter, names)
         ELSE IF fields[i] = delimiter
              THEN [names |-> names, dfound |-> dfound, early |-> TRUE]
              ELSE ScanFields(delimiter, fields, i + 1, dfound,
                              Append(names, fields[i]))

\* extractFileNames without the short circuit of lines 144-146
extractFileNamesNoShortCircuit(delimiter, line) ==
    LET r == ScanFields(delimiter, Fields(line), 1, FALSE, <<>>)
    IN  IF r.early
        THEN [names |-> r.names, err |-> ErrMultiple]
        ELSE IF ~r.dfound
             THEN [names |-> r.names, err |-> ErrUnbounded]
             ELSE IF Len(r.names) = 0
                  THEN [names |-> r.names, err |-> ErrMissing]
                  ELSE [names |-> r.names, err |-> ErrNil]

\* extractFileNames without `case false` of the switch (lines 163-164)
extractFileNamesNoUnboundedCase(delimiter, line) ==
    IF ~Contains(line, delimiter)
    THEN [names |-> <<>>, err |-> ErrNil]
    ELSE LET r == ScanFields(delimiter, Fields(line), 1, FALSE, <<>>)
         IN  IF r.early
             THEN [names |-> r.names, err |-> ErrMultiple]
             ELSE IF r.dfound /\ Len(r.names) = 0
                  THEN [names |-> r.names, err |-> ErrMissing]
                  ELSE [names |-> r.names, err |-> ErrNil]

\* extractFileNames without the len(names) == 0 test (lines 166-168)
extractFileNamesNoMissingCase(delimiter, line) ==
    IF ~Contains(line, delimiter)
    THEN [names |-> <<>>, err |-> ErrNil]
    ELSE LET r == ScanFields(delimiter, Fields(line), 1, FALSE, <<>>)
         IN  IF r.early
             THEN [names |-> r.names, err |-> ErrMultiple]
             ELSE IF ~r.dfound
                  THEN [names |-> r.names, err |-> ErrUnbounded]
                  ELSE [names |-> r.names, err |-> ErrNil]

extractFileNames(delimiter, line) ==
    IF ~Contains(line, delimiter)
    THEN [names |-> <<>>, err |-> ErrNil]
    ELSE LET r == ScanFields(delimiter, Fields(line), 1, FALSE, <<>>)
         IN  IF r.early
             THEN [names |-> r.names, err |-> ErrMultiple]
             ELSE IF ~r.dfound
                  THEN [names |-> r.names, err |-> ErrUnbounded]
                  ELSE IF Len(r.names) = 0
                       THEN [names |-> r.names, err |-> ErrMissing]
                       ELSE [names |-> r.names, err |-> ErrNil]

(***************************************************************************)
(* State.                                                                  *)
(***************************************************************************)
VARIABLES
    \* SpecClassify: one call of extractFileNames
    cDelim,      \* the delimiter argument
    cLine,       \* the line argument
    cResult,     \* the value returned
    cDone,       \* the call has returned
    \* Spec: one run of main
    pc,          \* where main is
    fileIdx,     \* input files main has tried to open so far
    infdOpen,    \* input file handles that are open
    targets,     \* processInputFile's local targets
    gOutputs,    \* _gOutputs: name -> handle
    openFds,     \* output handles that are open
    nextFd,      \* identity of the next handle os.Create returns
    exists,      \* names of the files on disk
    data,        \* content of the files on disk
    err,         \* main's err
    exitStatus,  \* the process's exit status, once pc = "exited"
    \* history of the run
    nreads,      \* calls of ReadString so far
    writeFails,  \* calls of WriteString that failed so far
    created,     \* names os.Create succeeded for in this run
    mentioned,   \* names the directives processed so far have listed
    specActive,  \* names of the latest directive processed in this run
    expected,    \* per name, the payload lines read while it was in specActive
    prevTargets, \* targets when the previous input file reached end-of-stream
    dirsInFile,  \* directives processed in the current input file
    droppedTail, \* ReadString returned text together with io.EOF
    last         \* what the latest step did

cvars == <<cDelim, cLine, cResult, cDone>>
rvars == <<pc, fileIdx, infdOpen, targets, gOutputs, openFds, nextFd,
           exists, data, err, exitStatus>>
hvars == <<nreads, writeFails, created, mentioned, specActive, expected,
           prevTargets, dirsInFile, droppedTail, last>>
vars == <<cvars, rvars, hvars>>

\* the handle a map lookup of a missing name yields, and the initial one
NilFile == [name |-> <<>>, id |-> 0]

\* what `last` holds before any step
NoStep == [op |-> "none", line |-> <<>>, names |-> <<>>, fresh |-> {},
           dests |-> <<>>]

\* the values of the run's variables while only extractFileNames is exercised
RunIdle ==
    /\ pc = "idle" /\ fileIdx = 0 /\ infdOpen = 0
    /\ targets = <<>> /\ gOutputs = <<>> /\ openFds = {} /\ nextFd = 1
    /\ exists = {} /\ data = <<>> /\ err = ErrNil /\ exitStatus = 0
    /\ nreads = 0 /\ writeFails = 0 /\ created = {} /\ mentioned = {}
    /\ specActive = <<>> /\ expected = <<>> /\ prevTargets = <<>>
    /\ dirsInFile = 0 /\ droppedTail = FALSE /\ last = NoStep

\* the values of the classifier's variables while a run is exercised
ClassifyIdle ==
    /\ cDelim = <<>> /\ cLine = <<>> /\ cDone = FALSE
    /\ cResult = [names |-> <<>>, err |-> ErrNil]

(***************************************************************************)
(* The environment of a run: what ReadString can return and which files    *)
(* the disk can hold.                                                       *)
(***************************************************************************)
\* flag -d: the delimiter of the runs of Spec (one character standing for
\* the default "FTEE")
Delimiter == <<"D">>

\* the lines ReadString can return together with a nil error: payload,
\* directives (one name, leading commentary, two names, one name twice) and
\* the three malformed directives
TermLines ==
    { <<"p", "\n">>,
      <<"q", "\n">>,
      <<"D", " ", "a", "\n">>,
      <<"p", " ", "D", " ", "b", "\n">>,
      <<"D", " ", "a", " ", "b", "\n">>,
      <<"D", " ", "a", " ", "a", "\n">>,
      <<"D", "\n">>,
      <<"p", "D", " ", "a", "\n">>,
      <<"D", " ", "a", " ", "D", "\n">> }

\* the text ReadString can return together with io.EOF: nothing, or a last
\* line that no newline ends
Tails == { <<>>, <<"p">>, <<"D", " ", "b">> }

\* processInputFile, line 245: what extractFileNames returns for each line
\* ReadString can return
Classified == [l \in TermLines |-> extractFileNames(Delimiter, l)]

Range(f) == {f[i] : i \in DOMAIN f}

\* every name a field of an input line can spell
AllNames == UNION {Range(Fields(l)) : l \in TermLines \cup Tails}

\* the names that may be files on disk before the run starts
PreNames == { <<"a">> }

\* the content of a file that was on disk before the run
OldContent == <<"o", "\n">>

ErrOpen == "Couldn't open input file"
ErrCreate == "os.Create failed"
ErrRead == "ReadString failed"

\* Lookup with a key that is never in the map (the line instead of the name)
LookupWrongKey(outs, name) == NilFile

\* _gOutputs[name], the zero value for a missing key
Lookup(outs, name) == IF name \in DOMAIN outs THEN outs[name] ELSE NilFile

(***************************************************************************)
(* openOutputFiles (src/ftee.go:180-199).  canCreate is the set of names   *)
(* os.Create succeeds for.  st carries _gOutputs, the disk, the handle     *)
(* counter, the handles created by this call and the error returned.       *)
(***************************************************************************)
\* IsNew with `isnew = false` (line 186) never reached
IsNewAlways(outs, name) == TRUE

\* lines 183-189: the name is not a key of _gOutputs
IsNew(outs, name) == name \notin DOMAIN outs

\* OpenFrom with `continue` in place of `return err` (line 193): the error
\* is kept and the names after the failed one are still tried
RECURSIVE OpenFromKeepGoing(_, _, _, _)
OpenFromKeepGoing(names, i, st, canCreate) ==
    IF i > Len(names)
    THEN st
    ELSE LET name == names[i]
         IN  IF ~IsNew(st.outs, name)
             THEN OpenFromKeepGoing(names, i + 1, st, canCreate)
             ELSE IF name \notin canCreate
                  THEN OpenFromKeepGoing(names, i + 1,
                                         [st EXCEPT !.err = ErrCreate], canCreate)
                  ELSE LET fd == [name |-> name, id |-> st.nextFd]
                       IN  OpenFromKeepGoing(names, i + 1,
                               [outs |-> [n \in DOMAIN st.outs \cup {name} |->
                                            IF n = name THEN fd ELSE st.outs[n]],
                                exists |-> st.exists \cup {name},
                                data |-> [st.data EXCEPT ![name] = <<>>],
                                nextFd |-> st.nextFd + 1,
                                fresh |-> st.fresh \cup {fd},
                                err |-> st.err],
                               canCreate)

RECURSIVE OpenFrom(_, _, _, _)
OpenFrom(names, i, st, canCreate) ==
    IF i > Len(names)
    THEN st
    ELSE LET name == names[i]
         IN  IF ~IsNew(st.outs, name)
             THEN OpenFrom(names, i + 1, st, canCreate)
             ELSE IF name \notin canCreate
                  THEN [st EXCEPT !.err = ErrCreate]
                  ELSE LET fd == [name |-> name, id |-> st.nextFd]
                       IN  OpenFrom(names, i + 1,
                               [outs |-> [n \in DOMAIN st.outs \cup {name} |->
                                            IF n = name THEN fd ELSE st.outs[n]],
                                exists |-> st.exists \cup {name},
                                data |-> [st.data EXCEPT ![name] = <<>>],
                                nextFd |-> st.nextFd + 1,
                                fresh |-> st.fresh \cup {fd},
                                err |-> st.err],
                               canCreate)

openOutputFiles(names, outs, ex, dat, fdc, canCreate) ==
    OpenFrom(names, 1,
             [outs |-> outs, exists |-> ex, data |-> dat, nextFd |-> fdc,
              fresh |-> {}, err |-> ErrNil],
             canCreate)

(***************************************************************************)
(* The payload branch of processInputFile (src/ftee.go:251-253): line is   *)
(* written to every entry of targets in order, and the value WriteString   *)
(* returns is dropped.  fails are the positions whose write fails; a       *)
(* failing write leaves the first `short` characters of line in the file.  *)
(***************************************************************************)
\* WriteAll ranging over every open handle of _gOutputs instead of targets
WriteAllOutputs(tgts, i, line, dat, open, fails, short) ==
    [n \in DOMAIN dat |->
        IF \E f \in open : f.name = n THEN dat[n] \o line ELSE dat[n]]

RECURSIVE WriteAll(_, _, _, _, _, _, _)
WriteAll(tgts, i, line, dat, open, fails, short) ==
    IF i > Len(tgts)
    THEN dat
    ELSE LET f == tgts[i]
             bytes == IF i \in fails THEN SubSeq(line, 1, short) ELSE line
         IN  IF f \notin open
             THEN WriteAll(tgts, i + 1, line, dat, open, fails, short)
             ELSE WriteAll(tgts, i + 1, line,
                           [dat EXCEPT ![f.name] = dat[f.name] \o bytes],
                           open, fails, short)

\* closeOutputFiles with the fd.Close call (line 205) left out
closeOutputFilesNoClose(outs, open) == open

\* closeOutputFiles (src/ftee.go:203-207): the handles still open afterwards
closeOutputFiles(outs, open) == open \ Range(outs)

\* removeOutputFiles with the os.Remove call (line 213) left out
removeOutputFilesNoRemove(outs, ex) == ex

\* removeOutputFiles (src/ftee.go:211-215): the files still on disk afterwards
removeOutputFiles(outs, ex) == ex \ DOMAIN outs

\* NewTargets without line 259: the handles are appended to the old targets
NewTargetsAppended(old, outs, names) ==
    old \o [i \in 1..Len(names) |-> Lookup(outs, names[i])]

\* NewTargets skipping a name it has already appended a handle for
NewTargetsOncePerName(old, outs, names) ==
    LET firsts == {i \in 1..Len(names) :
                     \A j \in 1..(i - 1) : names[j] # names[i]}
        nth(k) == CHOOSE i \in firsts :
                     Cardinality({j \in firsts : j < i}) = k - 1
    IN  [k \in 1..Cardinality(firsts) |-> Lookup(outs, names[nth(k)])]

\* processInputFile, lines 259-262: the targets after a directive, old being
\* the targets before it
NewTargets(old, outs, names) ==
    [i \in 1..Len(names) |-> Lookup(outs, names[i])]

(***************************************************************************)
(* Spec: one run of main.  The command line names at most MaxFiles input   *)
(* files; whether another one follows is decided when main's loop comes    *)
(* round (line 111).                                                      *)
(***************************************************************************)
Init ==
    /\ ClassifyIdle
    /\ pc = "main"
    /\ fileIdx = 0
    /\ infdOpen = 0
    /\ targets = <<>>
    /\ gOutputs = <<>>
    /\ openFds = {}
    /\ nextFd = 1
    /\ exists \in SUBSET PreNames
    /\ data = [n \in AllNames |-> IF n \in exists THEN OldContent ELSE <<>>]
    /\ err = ErrNil
    /\ exitStatus = 0
    /\ nreads = 0
    /\ writeFails = 0
    /\ created = {}
    /\ mentioned = {}
    /\ specActive = <<>>
    /\ expected = [n \in AllNames |-> <<>>]
    /\ prevTargets = <<>>
    /\ dirsInFile = 0
    /\ droppedTail = FALSE
    /\ last = NoStep

\* main, lines 111-116 with the start of processInputFile, lines 231-235:
\* os.Open of the next input file succeeds
OpenInput ==
    /\ pc = "main" /\ fileIdx < MaxFiles
    /\ fileIdx' = fileIdx + 1
    /\ infdOpen' = infdOpen + 1
    /\ targets' = <<>>
    /\ dirsInFile' = 0
    /\ pc' = "reading"
    /\ last' = [NoStep EXCEPT !.op = "open"]
    /\ UNCHANGED <<cvars, gOutputs, openFds, nextFd, exists, data, err,
                   exitStatus, nreads, writeFails, created, mentioned,
                   specActive, expected, prevTargets, droppedTail>>

\* main, lines 112-116: os.Open fails and main returns
OpenInputError ==
    /\ pc = "main" /\ fileIdx < MaxFiles
    /\ fileIdx' = fileIdx + 1
    /\ err' = ErrOpen
    /\ pc' = "deferClose"
    /\ last' = [NoStep EXCEPT !.op = "openErr"]
    /\ UNCHANGED <<cvars, infdOpen, targets, gOutputs, openFds, nextFd,
                   exists, data, exitStatus, nreads, writeFails, created,
                   mentioned, specActive, expected, prevTargets, dirsInFile,
                   droppedTail>>

\* main, lines 111 and 124: no input file is left and main returns
MainReturn ==
    /\ pc = "main"
    /\ pc' = "deferClose"
    /\ last' = [NoStep EXCEPT !.op = "return"]
    /\ UNCHANGED <<cvars, fileIdx, infdOpen, targets, gOutputs, openFds,
                   nextFd, exists, data, err, exitStatus, nreads, writeFails,
                   created, mentioned, specActive, expected, prevTargets,
                   dirsInFile, droppedTail>>

\* processInputFile, lines 237-241 and 265, with the deferred fd.Close:
\* ReadString returns io.EOF, together with the text after the last newline
LoopEOF ==
    /\ pc = "reading"
    /\ \E tail \in Tails :
        /\ droppedTail' = (droppedTail \/ tail # <<>>)
        /\ last' = [NoStep EXCEPT !.op = "eof", !.line = tail]
    /\ infdOpen' = infdOpen - 1
    /\ prevTargets' = targets
    /\ pc' = "main"
    /\ UNCHANGED <<cvars, fileIdx, targets, gOutputs, openFds, nextFd,
                   exists, data, err, exitStatus, nreads, writeFails, created,
                   mentioned, specActive, expected, dirsInFile>>

\* LoopReadError without `defer fd.Close()` (line 231): the input file is
\* closed on the normal return only
LoopReadErrorNoClose ==
    /\ pc = "reading"
    /\ err' = ErrRead
    /\ pc' = "deferClose"
    /\ last' = [NoStep EXCEPT !.op = "readErr"]
    /\ UNCHANGED <<cvars, fileIdx, infdOpen, targets, gOutputs, openFds,
                   nextFd, exists, data, exitStatus, nreads, writeFails,
                   created, mentioned, specActive, expected, prevTargets,
                   dirsInFile, droppedTail>>

\* processInputFile, lines 237-244: ReadString returns another error
LoopReadError ==
    /\ pc = "reading"
    /\ err' = ErrRead
    /\ infdOpen' = infdOpen - 1
    /\ pc' = "deferClose"
    /\ last' = [NoStep EXCEPT !.op = "readErr"]
    /\ UNCHANGED <<cvars, fileIdx, targets, gOutputs, openFds, nextFd,
                   exists, data, exitStatus, nreads, writeFails, created,
                   mentioned, specActive, expected, prevTargets, dirsInFile,
                   droppedTail>>

\* processInputFile, lines 237-248: extractFileNames returns an error
LoopClassifyError ==
    /\ pc = "reading" /\ nreads < MaxReads
    /\ \E line \in TermLines :
        LET r == Classified[line]
        IN  /\ r.err # ErrNil
            /\ err' = r.err
            /\ last' = [NoStep EXCEPT !.op = "classifyErr", !.line = line]
    /\ nreads' = nreads + 1
    /\ infdOpen' = infdOpen - 1
    /\ pc' = "deferClose"
    /\ UNCHANGED <<cvars, fileIdx, targets, gOutputs, openFds, nextFd,
                   exists, data, exitStatus, writeFails, created, mentioned,
                   specActive, expected, prevTargets, dirsInFile, droppedTail>>

\* processInputFile, lines 237-253: a line without names is written to the
\* targets
LoopPayload ==
    /\ pc = "reading" /\ nreads < MaxReads
    /\ \E line \in TermLines :
        LET r == Classified[line]
        IN  /\ r.err = ErrNil
            /\ Len(r.names) = 0
            /\ \E fails \in SUBSET (1..Len(targets)) :
                 \E short \in 0..(Len(line) - 1) :
                    /\ writeFails + Cardinality(fails) <= MaxWriteFails
                    /\ fails = {} => short = 0
                    /\ data' = WriteAll(targets, 1, line, data, openFds,
                                        fails, short)
                    /\ writeFails' = writeFails + Cardinality(fails)
            /\ expected' = [n \in AllNames |->
                              IF n \in Range(specActive)
                              THEN expected[n] \o line ELSE expected[n]]
            /\ last' = [NoStep EXCEPT !.op = "payload", !.line = line,
                                      !.dests = targets]
    /\ nreads' = nreads + 1
    /\ UNCHANGED <<cvars, pc, fileIdx, infdOpen, targets, gOutputs,
                   openFds, nextFd, exists, err, exitStatus, created, mentioned,
                   specActive, prevTargets, dirsInFile, droppedTail>>

\* processInputFile, lines 237-263: a line with names; openOutputFiles
\* succeeds and the handles of the names become the targets
LoopDirective ==
    /\ pc = "reading" /\ nreads < MaxReads
    /\ \E line \in TermLines :
        LET r == Classified[line]
        IN  /\ r.err = ErrNil
            /\ Len(r.names) > 0
            /\ \E canCreate \in SUBSET Range(r.names) :
                LET o == openOutputFiles(r.names, gOutputs, exists, data,
                                         nextFd, canCreate)
                IN  /\ o.err = ErrNil
                    /\ gOutputs' = o.outs
                    /\ exists' = o.exists
                    /\ data' = o.data
                    /\ nextFd' = o.nextFd
                    /\ openFds' = openFds \cup o.fresh
                    /\ created' = created \cup {f.name : f \in o.fresh}
                    /\ targets' = NewTargets(targets, o.outs, r.names)
                    /\ last' = [NoStep EXCEPT !.op = "directive",
                                              !.line = line,
                                              !.names = r.names,
                                              !.fresh = o.fresh]
            /\ mentioned' = mentioned \cup Range(r.names)
            /\ specActive' = r.names
    /\ nreads' = nreads + 1
    /\ dirsInFile' = dirsInFile + 1
    /\ UNCHANGED <<cvars, pc, fileIdx, infdOpen, err, exitStatus,
                   writeFails, expected, prevTargets, droppedTail>>

\* processInputFile, lines 237-258: a line with names; openOutputFiles
\* returns the error of os.Create and processInputFile returns it
LoopCreateError ==
    /\ pc = "reading" /\ nreads < MaxReads
    /\ \E line \in TermLines :
        LET r == Classified[line]
        IN  /\ r.err = ErrNil
            /\ Len(r.names) > 0
            /\ \E canCreate \in SUBSET Range(r.names) :
                LET o == openOutputFiles(r.names, gOutputs, exists, data,
                                         nextFd, canCreate)
                IN  /\ o.err # ErrNil
                    /\ gOutputs' = o.outs
                    /\ exists' = o.exists
                    /\ data' = o.data
                    /\ nextFd' = o.nextFd
                    /\ openFds' = openFds \cup o.fresh
                    /\ created' = created \cup {f.name : f \in o.fresh}
                    /\ err' = o.err
                    /\ last' = [NoStep EXCEPT !.op = "createErr",
                                              !.line = line,
                                              !.names = r.names,
                                              !.fresh = o.fresh]
            /\ mentioned' = mentioned \cup Range(r.names)
    /\ nreads' = nreads + 1
    /\ infdOpen' = infdOpen - 1
    /\ pc' = "deferClose"
    /\ UNCHANGED <<cvars, fileIdx, targets, exitStatus, writeFails,
                   specActive, expected, prevTargets, dirsInFile, droppedTail>>

\* main, line 100: the deferred closeOutputFiles runs first
CloseOutputFiles ==
    /\ pc = "deferClose"
    /\ openFds' = closeOutputFiles(gOutputs, openFds)
    /\ pc' = "deferErr"
    /\ last' = [NoStep EXCEPT !.op = "close"]
    /\ UNCHANGED <<cvars, fileIdx, infdOpen, targets, gOutputs, nextFd,
                   exists, data, err, exitStatus, nreads, writeFails, created,
                   mentioned, specActive, expected, prevTargets, dirsInFile,
                   droppedTail>>

\* main, lines 92-94: the deferred function finds err set and removes the
\* output files
RemoveOutputFiles ==
    /\ pc = "deferErr" /\ err # ErrNil
    /\ exists' = removeOutputFiles(gOutputs, exists)
    /\ data' = [n \in AllNames |-> IF n \in exists' THEN data[n] ELSE <<>>]
    /\ pc' = "fatal"
    /\ last' = [NoStep EXCEPT !.op = "remove"]
    /\ UNCHANGED <<cvars, fileIdx, infdOpen, targets, gOutputs, openFds,
                   nextFd, err, exitStatus, nreads, writeFails, created,
                   mentioned, specActive, expected, prevTargets, dirsInFile,
                   droppedTail>>

\* LogFatal with log.Println in place of log.Fatalln: main returns and the
\* process ends with status 0
LogFatalPrintOnly ==
    /\ pc = "fatal"
    /\ exitStatus' = 0
    /\ pc' = "exited"
    /\ last' = [NoStep EXCEPT !.op = "fatal"]
    /\ UNCHANGED <<cvars, fileIdx, infdOpen, targets, gOutputs, openFds,
                   nextFd, exists, data, err, nreads, writeFails, created,
                   mentioned, specActive, expected, prevTargets, dirsInFile,
                   droppedTail>>

\* main, line 95: log.Fatalln prints err and exits with status 1
LogFatal ==
    /\ pc = "fatal"
    /\ exitStatus' = 1
    /\ pc' = "exited"
    /\ last' = [NoStep EXCEPT !.op = "fatal"]
    /\ UNCHANGED <<cvars, fileIdx, infdOpen, targets, gOutputs, openFds,
                   nextFd, exists, data, err, nreads, writeFails, created,
                   mentioned, specActive, expected, prevTargets, dirsInFile,
                   droppedTail>>

\* main, lines 92-97: the deferred function finds err nil; the process ends
\* with status 0
ExitNormally ==
    /\ pc = "deferErr" /\ err = ErrNil
    /\ exitStatus' = 0
    /\ pc' = "exited"
    /\ last' = [NoStep EXCEPT !.op = "exit"]
    /\ UNCHANGED <<cvars, fileIdx, infdOpen, targets, gOutputs, openFds,
                   nextFd, exists, data, err, nreads, writeFails, created,
                   mentioned, specActive, expected, prevTargets, dirsInFile,
                   droppedTail>>

Next ==
    \/ OpenInput
    \/ OpenInputError
    \/ MainReturn
    \/ LoopEOF
    \/ LoopReadError
    \/ LoopClassifyError
    \/ LoopPayload
    \/ LoopDirective
    \/ LoopCreateError
    \/ CloseOutputFiles
    \/ RemoveOutputFiles
    \/ LogFatal
    \/ ExitNormally

Spec == Init /\ [][Next]_vars

\* main is one sequential program: whenever it can take a step it does
FairSpec == Spec /\ WF_vars(Next)

(***************************************************************************)
(* Claims about a run.                                                     *)
(***************************************************************************)
\* C1: after a successful run over one input file whose lines all end with
\* a newline, every destination holds exactly the payload lines read while
\* it was active, in order, and no file was created for a name no directive
\* mentions
C1_SingleFileContent ==
    (pc = "exited" /\ exitStatus = 0 /\ fileIdx = 1 /\ ~droppedTail)
        => /\ created \subseteq mentioned
           /\ \A n \in mentioned : n \in exists /\ data[n] = expected[n]

\* C2: when a run that met an error has ended, no destination created
\* during the run is on disk
C2_FailureAtomicity ==
    (pc = "exited" /\ err # ErrNil) => created \cap exists = {}

\* a second input file named a destination that could not be created, after
\* the first had created and fed another one, which is gone at the end
C2_Witness ==
    /\ pc = "exited" /\ err = ErrCreate /\ fileIdx = 2
    /\ \E n \in created : expected[n] # <<>> /\ n \notin exists

\* C3: a payload line read in a later input file before that file's first
\* directive is written to the targets that were active when the previous
\* input file ended, and these are still the targets
C3_MultiFileContinuity ==
    (pc = "reading" /\ fileIdx > 1 /\ dirsInFile = 0 /\ last.op = "payload")
        => (last.dests = prevTargets /\ targets = prevTargets)

\* C4: a directive whose names are all keys of the destination map creates
\* and truncates nothing and leaves the map, its handles and the content on
\* disk as they were; and whatever a directive names, every name that is
\* already a key keeps its handle, its file and its content
C4_OpenIsIdempotent ==
    [][(pc = "reading" /\ nreads' = nreads + 1 /\ last'.names # <<>>)
         => /\ \A n \in DOMAIN gOutputs :
                 /\ n \in DOMAIN gOutputs'
                 /\ gOutputs'[n] = gOutputs[n]
                 /\ data'[n] = data[n]
                 /\ n \in exists => n \in exists'
            /\ Range(last'.names) \subseteq DOMAIN gOutputs
                 => (/\ last'.op = "directive"
                     /\ gOutputs' = gOutputs
                     /\ openFds' = openFds
                     /\ nextFd' = nextFd
                     /\ exists' = exists
                     /\ data' = data)]_vars

\* the second input file names again a destination the first one created
\* and wrote to; nothing is created and the content is still there
C4_Witness ==
    /\ last.op = "directive" /\ last.fresh = {} /\ fileIdx = 2
    /\ last.names[1] \in created
    /\ data[last.names[1]] # <<>>

\* C10: a run in which a write to a destination failed ends with a non-zero
\* status and leaves no destination on disk
C10_WriteFailureIsFatal ==
    (pc = "exited" /\ writeFails > 0)
        => (exitStatus = 1 /\ created \cap exists = {})

\* an input-open, classifier, destination-create or read error has happened
\* in the run: the step that met it is the last one of the loop
ErrorSteps == {"openErr", "classifyErr", "createErr", "readErr"}

\* the run met one of the errors of ErrorSteps: main's loop was left by one
\* of them, after which only the deferred steps follow
RunFailed ==
    \/ last.op \in ErrorSteps
    \/ last.op \in {"close", "remove", "fatal", "exit"} /\ err # ErrNil

Beginnings(line) == {SubSeq(line, 1, j) : j \in 0..Len(line)}

\* what k calls of WriteString(line) on one file can append to it
RECURSIVE Appended(_, _)
Appended(line, k) ==
    IF k = 0
    THEN {<<>>}
    ELSE {u \o v : u \in Appended(line, k - 1), v \in Beginnings(line)}

\* the number of entries of the target list tgts that are handles of name n
Entries(tgts, n) == Cardinality({i \in 1..Len(tgts) : tgts[i].name = n})

\* C12: the content of a destination changes only by os.Create emptying it,
\* by the final removal, or by a payload line (one without a delimiter field)
\* read while the destination is in the target list being appended to it; a
\* directive line and a line read while the target list is empty are written
\* nowhere
C12_OnlyActivePayloadWritten ==
    [][\A n \in AllNames :
         data'[n] # data[n] =>
            \/ /\ last'.op \in {"directive", "createErr", "remove"}
               /\ data'[n] = <<>>
            \/ /\ last'.op = "payload"
               /\ \A i \in 1..Len(Fields(last'.line)) :
                     Fields(last'.line)[i] # Delimiter
               /\ Entries(targets, n) > 0
               /\ n \in Range(specActive)
               /\ Len(data'[n]) > Len(data[n])
               /\ SubSeq(data'[n], 1, Len(data[n])) = data[n]
               /\ SubSeq(data'[n], Len(data[n]) + 1, Len(data'[n]))
                     \in Appended(last'.line, Entries(targets, n))]_vars

\* a payload line was read while the target list was empty, and no
\* destination holds anything written by the run
C12_Witness ==
    /\ last.op = "payload" /\ last.dests = <<>> /\ fileIdx = 1
    /\ \A n \in AllNames : data[n] \in {<<>>, OldContent}

\* C13: once an error has happened in the run (main's err is set, or a write
\* to a destination has failed), no input file is opened, no line is read
\* and classified, no destination is created and no byte is written; the
\* only change to the disk is the final removal
C13_NothingAfterFirstError ==
    [][(err # ErrNil \/ writeFails > 0)
         => /\ fileIdx' = fileIdx
            /\ nreads' = nreads
            /\ created' = created
            /\ gOutputs' = gOutputs
            /\ \A n \in AllNames :
                 \/ data'[n] = data[n]
                 \/ last'.op = "remove" /\ data'[n] = <<>>]_vars

\* C13 for the errors the code looks at: once main's err is set, no input
\* file is opened, no line is read, no destination is created and no byte
\* is written
C13_NothingAfterDetectedError ==
    [][err # ErrNil
         => /\ fileIdx' = fileIdx
            /\ nreads' = nreads
            /\ created' = created
            /\ gOutputs' = gOutputs
            /\ \A n \in AllNames :
                 \/ data'[n] = data[n]
                 \/ last'.op = "remove" /\ data'[n] = <<>>]_vars

\* C14: a directive that is processed makes the target list the handles the
\* map binds to its names, in the order of the names, and nothing else; a
\* payload line leaves the target list and the map as they are and changes
\* no destination that the latest directive does not name
C14_TargetsReplaced ==
    [][/\ (nreads' = nreads + 1 /\ last'.op = "directive")
            => /\ Range(last'.names) \subseteq DOMAIN gOutputs'
               /\ Len(targets') = Len(last'.names)
               /\ \A i \in 1..Len(last'.names) :
                     targets'[i] = Lookup(gOutputs', last'.names[i])
       /\ (nreads' = nreads + 1 /\ last'.op = "payload")
            => /\ targets' = targets
               /\ gOutputs' = gOutputs
               /\ \A n \in AllNames \ Range(specActive) :
                     data'[n] = data[n]]_vars

\* after directives naming a and then b, a payload line went to b alone and
\* a is still empty
C14_Witness ==
    /\ last.op = "payload" /\ Len(last.dests) = 1
    /\ last.dests[1].name = <<"b">>
    /\ data[<<"b">>] = last.line
    /\ <<"a">> \in created /\ data[<<"a">>] = <<>>

\* how far the run has come: in main's loop, main has returned, the outputs
\* are closed, the outputs are removed, the process has ended
Stage(p) ==
    CASE p \in {"main", "reading"} -> 0
      [] p = "deferClose" -> 1
      [] p = "deferErr" -> 2
      [] p = "fatal" -> 3
      [] p = "exited" -> 4

\* C15: the run goes once through closing every handle of the map, then,
\* only if err is set, removing the file of every name of the map, then
\* ending; files are removed at no other point, and a run without error
\* ends with every destination on disk
C15_FinalizeOrder ==
    [][/\ \/ Stage(pc') = Stage(pc)
          \/ Stage(pc') = Stage(pc) + 1 /\ (Stage(pc) = 2 => err # ErrNil)
          \/ Stage(pc) = 2 /\ Stage(pc') = 4 /\ err = ErrNil
       /\ Stage(pc') >= 2 => openFds' \cap Range(gOutputs') = {}
       /\ (exists \ exists') # {}
            => (Stage(pc) = 2 /\ Stage(pc') = 3 /\ err # ErrNil)
       /\ Stage(pc') >= 3 => gOutputs' = gOutputs
       /\ Stage(pc') = 3 => (DOMAIN gOutputs') \cap exists' = {}
       /\ Stage(pc') = 4
            => IF err' = ErrNil
               THEN exitStatus' = 0 /\ DOMAIN gOutputs' \subseteq exists'
               ELSE exitStatus' = 1 /\ (DOMAIN gOutputs') \cap exists' = {}]_vars

\* the handles of two destinations are closed and their files removed, and
\* the process has not ended yet
C15_Witness ==
    /\ pc = "fatal" /\ Cardinality(DOMAIN gOutputs) = 2
    /\ openFds = {} /\ exists \cap DOMAIN gOutputs = {}

\* C16: when os.Create fails for the k-th name of a directive, no name after
\* the k-th is created, the names created before it stay in the map and on
\* disk, the failed name is not in the map, processInputFile returns the
\* error, and at the end of the run no name of the map is on disk
C16_CreateFailureStops ==
    /\ [][(nreads' = nreads + 1 /\ last'.op = "createErr")
            => /\ err' = ErrCreate /\ pc' = "deferClose"
               /\ targets' = targets
               /\ \A n \in DOMAIN gOutputs :
                     n \in DOMAIN gOutputs' /\ gOutputs'[n] = gOutputs[n]
               /\ DOMAIN gOutputs' \subseteq exists'
               /\ \E k \in 1..Len(last'.names) :
                     /\ last'.names[k] \notin DOMAIN gOutputs'
                     /\ \A j \in 1..(k - 1) :
                           last'.names[j] \in DOMAIN gOutputs'
                     /\ \A j \in (k + 1)..Len(last'.names) :
                           last'.names[j] \notin DOMAIN gOutputs
                              => /\ last'.names[j] \notin DOMAIN gOutputs'
                                 /\ last'.names[j] \notin created'
                                 /\ data'[last'.names[j]] = data[last'.names[j]]
                                 /\ (last'.names[j] \in exists'
                                       <=> last'.names[j] \in exists)]_vars
    /\ [](pc = "exited" /\ err = ErrCreate
            => (DOMAIN gOutputs) \cap exists = {})

\* the second name of a directive could not be created; the first one was
\* created by the same call and is in the map and on disk
C16_Witness ==
    /\ last.op = "createErr" /\ Len(last.names) = 2
    /\ last.names[1] \in {f.name : f \in last.fresh}
    /\ last.names[1] \in DOMAIN gOutputs /\ last.names[1] \in exists
    /\ last.names[2] \notin DOMAIN gOutputs

\* C17: text that ReadString returns together with io.EOF is a line like any
\* other: a payload line is written to the targets, a directive becomes the
\* active one, a malformed directive sets err
C17_LastLineProcessed ==
    (last.op = "eof" /\ last.line # <<>>)
        => LET r == extractFileNames(Delimiter, last.line)
           IN  IF r.err # ErrNil
               THEN err # ErrNil
               ELSE IF r.names = <<>>
                    THEN \A i \in 1..Len(prevTargets) :
                            LET d == data[prevTargets[i].name]
                            IN  /\ Len(d) >= Len(last.line)
                                /\ SubSeq(d, Len(d) - Len(last.line) + 1, Len(d))
                                      = last.line
                    ELSE /\ Range(r.names) \subseteq DOMAIN gOutputs
                         /\ specActive = r.names

\* C18: at most one input file is open at any time, exactly one while
\* processInputFile runs, and none in main's loop or once main has returned
C18_InputHandleReleased ==
    /\ infdOpen <= 1
    /\ pc = "reading" => infdOpen = 1
    /\ pc \in {"main", "deferClose", "deferErr", "fatal", "exited"}
          => infdOpen = 0

\* the second input file was left by a create error and main's deferred
\* calls start with no input file open
C18_Witness ==
    pc = "deferClose" /\ err = ErrCreate /\ fileIdx = 2 /\ infdOpen = 0

\* C19: before the deferred calls run, every entry of the target list is an
\* open handle that the map binds to its name; at every step the map keeps
\* its keys and the handle of each key
C19_TargetsAreMapHandles ==
    /\ [](Stage(pc) = 0
            => \A i \in 1..Len(targets) :
                  /\ targets[i] # NilFile
                  /\ targets[i] \in openFds
                  /\ targets[i].name \in DOMAIN gOutputs
                  /\ gOutputs[targets[i].name] = targets[i])
    /\ [][\A n \in DOMAIN gOutputs :
             n \in DOMAIN gOutputs' /\ gOutputs'[n] = gOutputs[n]]_vars

\* two different destinations are active, both open and in the map
C19_Witness ==
    /\ pc = "reading" /\ Len(targets) = 2 /\ targets[1] # targets[2]
    /\ {targets[1], targets[2]} \subseteq openFds
    /\ Cardinality(DOMAIN gOutputs) = 2

\* the line written k times in a row
RECURSIVE Repeated(_, _)
Repeated(line, k) == IF k = 0 THEN <<>> ELSE line \o Repeated(line, k - 1)

\* the number of times name n occurs in the list names
Occurrences(names, n) == Cardinality({i \in 1..Len(names) : names[i] = n})

\* C20: a directive that lists a name k times creates it at most once and
\* puts k entries, all the handle of the name, in the target list; a payload
\* line whose writes all succeed is appended to a destination once per entry
\* of the target list, so k times
C20_RepeatedName ==
    [][/\ (nreads' = nreads + 1 /\ last'.op = "directive")
            => \A n \in Range(last'.names) :
                  /\ Entries(targets', n) = Occurrences(last'.names, n)
                  /\ \A i \in 1..Len(targets') :
                        targets'[i].name = n => targets'[i] = gOutputs'[n]
                  /\ Cardinality({f \in last'.fresh : f.name = n}) <= 1
                  /\ n \in DOMAIN gOutputs
                        => {f \in last'.fresh : f.name = n} = {}
       /\ (nreads' = nreads + 1 /\ last'.op = "payload"
             /\ writeFails' = writeFails)
            => \A n \in AllNames :
                  data'[n] = data[n]
                                \o Repeated(last'.line, Entries(targets, n))]_vars

\* a directive named a twice and the payload line after it is in a twice
C20_Witness ==
    /\ last.op = "payload" /\ Len(last.dests) = 2
    /\ last.dests[1] = last.dests[2]
    /\ data[last.dests[1].name] = last.line \o last.line

(***************************************************************************)
(* SpecClassify: extractFileNames applied to every delimiter of Delims and *)
(* every line over Char of at most MaxLineLen characters.                  *)
(***************************************************************************)
\* the -d values exercised: one character, two characters, the empty
\* string, and a delimiter with a space inside
Delims == {<<"D">>, <<"D", "D">>, <<>>, <<"D", " ", "D">>}

Lines == UNION {[1..n -> Char] : n \in 0..MaxLineLen}

InitClassify ==
    /\ cDelim \in Delims
    /\ cLine \in Lines
    /\ cDone = FALSE
    /\ cResult = [names |-> <<>>, err |-> ErrNil]
    /\ RunIdle

Classify ==
    /\ ~cDone
    /\ cResult' = extractFileNames(cDelim, cLine)
    /\ cDone' = TRUE
    /\ UNCHANGED <<cDelim, cLine, rvars, hvars>>

NextClassify == Classify

SpecClassify == InitClassify /\ [][NextClassify]_vars

(***************************************************************************)
(* Vocabulary of the classifier claims, stated on strings.Fields alone.    *)
(***************************************************************************)
\* the positions of the fields of cLine that equal the delimiter
DelimFieldPositions ==
    {i \in 1..Len(Fields(cLine)) : Fields(cLine)[i] = cDelim}

\* the delimiter text occurs inside some field of cLine
DelimInsideSomeField ==
    \E i \in 1..Len(Fields(cLine)) : Contains(Fields(cLine)[i], cDelim)

\* C5 as the specification states it: a line without a standalone delimiter
\* field is payload (no names, no error)
C5_NoStandaloneFieldIsPayload ==
    (cDone /\ DelimFieldPositions = {})
        => (cResult.names = <<>> /\ cResult.err = ErrNil)

\* C5 as amended: a line that does not contain the delimiter text at all is
\* payload (no names, no error)
C5_NoDelimiterTextIsPayload ==
    (cDone /\ ~Contains(cLine, cDelim))
        => (cResult.names = <<>> /\ cResult.err = ErrNil)

C5_Witness ==
    /\ cDone /\ cDelim = <<"D">> /\ cLine = <<"a", " ", "b", "\n">>
    /\ cResult.err = ErrNil

\* C6: the delimiter text inside a field but never a field of its own is the
\* UnboundedDelimiter error, and no names are returned
C6_UnboundedDelimiter ==
    (cDone /\ DelimInsideSomeField /\ DelimFieldPositions = {})
        => (cResult.err = ErrUnbounded /\ cResult.names = <<>>)

C6_Witness ==
    /\ cDone /\ cDelim = <<"D">> /\ cLine = <<"a", "D", " ", "b", "\n">>
    /\ cResult.err = ErrUnbounded

\* C7: two or more fields equal to the delimiter are the MultipleDelimiters
\* error, whatever lies between or after them
C7_MultipleDelimiters ==
    (cDone /\ Cardinality(DelimFieldPositions) >= 2)
        => cResult.err = ErrMultiple

C7_Witness ==
    /\ cDone /\ cDelim = <<"D">> /\ cLine = <<"D", " ", "D", "\n">>
    /\ cResult.err = ErrMultiple

\* C8: exactly one delimiter field and no field after it is the
\* MissingTargets error
C8_MissingTargets ==
    (cDone /\ DelimFieldPositions = {Len(Fields(cLine))})
        => cResult.err = ErrMissing

C8_Witness ==
    /\ cDone /\ cDelim = <<"D">> /\ cLine = <<"a", " ", "D", "\n">>
    /\ cResult.err = ErrMissing

\* C9: exactly one delimiter field with a field after it gives no error and
\* exactly the fields after it, in order, duplicates kept
C9_NamesAreFieldsAfterDelimiter ==
    \A i \in 1..Len(Fields(cLine)) :
        (cDone /\ DelimFieldPositions = {i} /\ i < Len(Fields(cLine)))
            => /\ cResult.err = ErrNil
               /\ cResult.names = SubSeq(Fields(cLine), i + 1, Len(Fields(cLine)))

C9_Witness ==
    /\ cDone /\ cDelim = <<"D">> /\ cLine = <<"D", " ", "b", " ", "a">>
    /\ cResult.names = << <<"b">>, <<"a">> >>

====
